---- MODULE Spec2Model ----
(***************************************************************************)
(* Model of src/src/App.tsx: the 12-block canvas form (catalog BLOCKS,     *)
(* answers/completed/focusId component state, localStorage persistence,    *)
(* keyboard handler, TXT export).                                          *)
(*                                                                         *)
(* Text.  A JavaScript string is modelled as a sequence of pieces; a piece *)
(* is a non-empty TLA+ string and the text denotes the concatenation of    *)
(* its pieces.  A line break is always the piece NL on its own, and no     *)
(* other piece contains a line break, so splitting on NL is exact.         *)
(* Catalog strings are single pieces.  Characters outside Latin-1 are      *)
(* written with ASCII stand-ins: the en dash of App.tsx:73 and :144 as     *)
(* "-", and the map emoji of App.tsx:144 is left out.                      *)
(***************************************************************************)
EXTENDS Integers, Sequences, FiniteSets, TLC

\* ===== Utilidades =====
KEY == "canvas_decisores_publico_v1"

\* variant: a catalog with the same ids whose numbers are not padded to two
\* digits ("1." to "12.")
BLOCKSUnpadded ==
  [i \in 1..12 |->
     [id |-> IF i < 10 THEN "b" \o ToString(i) ELSE "b1" \o ToString(i - 10),
      numero |-> ToString(i) \o ".",
      titulo |-> "Bloque",
      pregunta |-> "¿?"]]

\* ===== Datos EXACTOS =====
BLOCKS ==
  << 
     [id |-> "b1", numero |-> "01.", titulo |-> "Barreras actuales",
      pregunta |-> "¿Qué procesos internos (ciclos de aprobación, sistemas legados, compliance) o limitaciones presupuestales están frenando hoy la adopción de nuevas arquitecturas tecnológicas en su organización?"],
     [id |-> "b2", numero |-> "02.", titulo |-> "Prioridades estratégicas",
      pregunta |-> "¿Qué capacidades técnicas (infraestructura como código, observabilidad, resiliencia, seguridad cloud) necesita el equipo de TI para sostener y escalar la transformación digital?"],
     [id |-> "b3", numero |-> "03.", titulo |-> "Intereses profesionales",
      pregunta |-> "¿Qué áreas de especialización (microservicios, contenedores, automatización, IA operativa, analítica avanzada) son prioritarias para fortalecer el desarrollo de su equipo?"],
     [id |-> "b4", numero |-> "04.", titulo |-> "Riesgos percibidos",
      pregunta |-> "¿Qué riesgos (pérdida de datos, interrupciones, brechas de seguridad, vendor lock-in, sobrecostos) generan mayor cautela al desplegar soluciones de mediano y largo plazo?"],
     [id |-> "b5", numero |-> "05.", titulo |-> "Visión a futuro",
      pregunta |-> "¿Cómo imagina que debería funcionar el área de TI en 3-5 años para garantizar agilidad, estabilidad y escalabilidad después de estas transformaciones?"],
     [id |-> "b6", numero |-> "06.", titulo |-> "Incentivos y alineación",
      pregunta |-> "¿Qué reconocimientos o beneficios (KPIs de despliegue continuo, reducción de incidentes, certificaciones técnicas, productividad de equipos) reforzarían el compromiso de su unidad con estas iniciativas?"],
     [id |-> "b7", numero |-> "07.", titulo |-> "Red de influencia",
      pregunta |-> "¿Qué comunidades técnicas internas (comités de arquitectura, foros DevOps) o externas (Oracle User Groups, conferencias de cloud, asociaciones sectoriales) influyen más en sus decisiones de diseño e implementación?"],
     [id |-> "b8", numero |-> "08.", titulo |-> "Proveedores actuales",
      pregunta |-> "¿Qué proveedores tecnológicos o integradores (Oracle, Red Hat, AWS, Azure, Microsoft, firmas locales) han demostrado valor en proyectos similares y cómo se percibe su aporte?"],
     [id |-> "b9", numero |-> "09.", titulo |-> "Madurez digital",
      pregunta |-> "¿Cómo se evalúa actualmente el nivel de madurez digital de la organización en prácticas DevOps (CI/CD, testing automatizado, despliegue continuo, FinOps) y en adopción multicloud?"],
     [id |-> "b10", numero |-> "10.", titulo |-> "Motivadores clave",
      pregunta |-> "¿Qué beneficios (mayor agilidad de entrega, estabilidad de servicios, reducción de incidentes críticos, ahorro de costos, productividad de desarrolladores) motivan más a su equipo para acelerar estas iniciativas?"],
     [id |-> "b11", numero |-> "11.", titulo |-> "Criterios de éxito",
      pregunta |-> "¿Qué mejoras tangibles (menos fallos en producción, tiempos de recuperación más cortos, mayor velocidad de releases, reducción de TCO) deben evidenciar para considerar exitosos los proyectos?"],
     [id |-> "b12", numero |-> "12.", titulo |-> "Lecciones previas",
      pregunta |-> "¿Qué errores de proyectos anteriores (despliegues manuales, falta de rollback, integraciones fallidas, configuraciones dispersas) buscan evitar para garantizar el éxito en esta nueva etapa?"]
  >>

NBlocks == Len(BLOCKS)
Ids == {BLOCKS[i].id : i \in 1..NBlocks}

\* Positions are 0-based, as in the code (Array.prototype.findIndex).
BlockAt(i) == BLOCKS[i + 1]

\* BLOCKS.findIndex((b) => b.id === id): -1 when no block has the id.
FindIndex(id) ==
  IF \E i \in 0..(NBlocks - 1) : BlockAt(i).id = id
  THEN CHOOSE i \in 0..(NBlocks - 1) :
         /\ BlockAt(i).id = id
         /\ \A j \in 0..(i - 1) : BlockAt(j).id # id
  ELSE -1

\* ===== Text =====
NL == "\n"
SP == " "
Whitespace == {SP, NL}

\* The answer texts the user types or storage holds: empty, whitespace
\* only, a word, a padded word, two lines, padded lines, and the word
\* "undefined" typed by the user.
Texts ==
  { <<>>, <<SP>>, <<"x">>, <<SP, "x", SP>>, <<"x", NL, "y">>,
    <<NL, "x", SP>>, <<"undefined">> }

RECURSIVE TrimStart(_)
TrimStart(s) ==
  IF s # <<>> /\ Head(s) \in Whitespace THEN TrimStart(Tail(s)) ELSE s

RECURSIVE TrimEnd(_)
TrimEnd(s) ==
  IF s # <<>> /\ s[Len(s)] \in Whitespace
  THEN TrimEnd(SubSeq(s, 1, Len(s) - 1))
  ELSE s

\* String.prototype.trim
Trim(s) == TrimEnd(TrimStart(s))

\* Array.prototype.join(sep) on an array of texts.
RECURSIVE Join(_, _)
Join(arr, sep) ==
  IF arr = <<>> THEN <<>>
  ELSE IF Len(arr) = 1 THEN arr[1]
  ELSE arr[1] \o <<sep>> \o Join(Tail(arr), sep)

\* String(n) for a natural number: its decimal digits.
Digit(d) == CASE d = 0 -> "0" [] d = 1 -> "1" [] d = 2 -> "2" [] d = 3 -> "3"
              [] d = 4 -> "4" [] d = 5 -> "5" [] d = 6 -> "6" [] d = 7 -> "7"
              [] d = 8 -> "8" [] d = 9 -> "9"

RECURSIVE NumToText(_)
NumToText(n) ==
  IF n < 10 THEN <<Digit(n)>> ELSE NumToText(n \div 10) \o <<Digit(n % 10)>>

\* ===== JavaScript values of answers[b.id] =====
\* def = FALSE is undefined; otherwise a string with text s.
Undefined == [def |-> FALSE, s |-> <<>>]
Str(s) == [def |-> TRUE, s |-> s]

\* answers[id]
Lookup(a, id) == IF id \in DOMAIN a THEN Str(a[id]) ELSE Undefined

\* v?.trim()
OptTrim(v) == IF v.def THEN Str(Trim(v.s)) ELSE Undefined

\* Truthiness of a string-or-undefined value.
Truthy(v) == v.def /\ v.s # <<>>

\* v || d, as text
OrElse(v, d) == IF Truthy(v) THEN v.s ELSE d

\* String(v), what a template literal or join would print
ToText(v) == IF v.def THEN v.s ELSE <<"undefined">>

\* Math.round(x) for x = (num / den) * 100 >= 0: floor(x + 1/2).  The
\* quotients k/12 * 100 are either integers or at least 1/6 away from a
\* half, so the double arithmetic of the code agrees with exact arithmetic.
MathRoundPct(num, den) == (2 * 100 * num + den) \div (2 * den)

\* ===== Componente: state =====
VARIABLES
  pc,         \* where the component is in its life: the mount effects in
              \* order, "ready" for user input, "unmounted" after an error
  answers,    \* useState<Answers>: map from id to text
  completed,  \* useState<string[]>: list of ids
  focusId,    \* useState<string>
  hAnswers,   \* the answers captured by the registered keydown handler
              \* (through exportTXT of the render that registered it)
  queued,     \* state updates enqueued by the load effect, not yet rendered
  storage,    \* the item stored under KEY
  stored0,    \* the item stored under KEY when the component mounted
  quotaFull,  \* whether localStorage.setItem throws (quota exceeded)
  error,      \* the error that escaped to React, if any
  download,   \* the file offered by the latest event, NoFile if none
  lastOp,     \* the latest effect or event handled
  ops         \* number of mutating events handled

vars == <<pc, answers, completed, focusId, hAnswers, queued, storage, stored0,
          quotaFull, error, download, lastOp, ops>>


\* ===== Generacion de TXT =====
TitleLine == <<"Mapa Descriptivo del Cliente - Implementadores del Sector Privado">>
Placeholder == <<"[Sin respuesta]">>

\* variant: the fallback to the placeholder is forgotten
AnswerLineNoFallback(a, b) == ToText(OptTrim(Lookup(a, b.id)))

\* variant: the answer is not trimmed before it is tested
RECURSIVE CountFilledNoTrim(_, _)
CountFilledNoTrim(a, n) ==
  IF n = 0 THEN 0
  ELSE CountFilledNoTrim(a, n - 1)
       + (IF Truthy(Lookup(a, BLOCKS[n].id)) THEN 1 ELSE 0)

\* variant: the progress counts what the cards show as complete
RECURSIVE CountFilledOrCompleted(_, _)
CountFilledOrCompleted(a, n) ==
  IF n = 0 THEN 0
  ELSE CountFilledOrCompleted(a, n - 1)
       + (IF \/ Truthy(OptTrim(Lookup(a, BLOCKS[n].id)))
             \/ \E i \in 1..Len(completed) : completed[i] = BLOCKS[n].id
          THEN 1 ELSE 0)

RECURSIVE CountFilled(_, _)
\* BLOCKS.reduce((acc, b) => acc + (answers[b.id]?.trim() ? 1 : 0), 0)
CountFilled(a, n) ==
  IF n = 0 THEN 0
  ELSE CountFilled(a, n - 1)
       + (IF Truthy(OptTrim(Lookup(a, BLOCKS[n].id))) THEN 1 ELSE 0)

ProgressLine(filled, total, progress) ==
  <<"Progreso: ">> \o NumToText(filled) \o <<"/">> \o NumToText(total)
     \o <<" (">> \o NumToText(progress) \o <<"%)">>

AnswerLine(a, b) == OrElse(OptTrim(Lookup(a, b.id)), Placeholder)

\* The four lines.push calls of one loop iteration.
BlockLines(a, b) ==
  << <<b.numero, SP, b.titulo>>, <<b.pregunta>>, AnswerLine(a, b), <<>> >>

RECURSIVE PushLines(_, _)
PushLines(a, n) ==
  IF n = 0 THEN <<>> ELSE PushLines(a, n - 1) \o BlockLines(a, BLOCKS[n])

buildTXTContent(a) ==
  LET total == NBlocks
      filled == CountFilled(a, NBlocks)
      progress == MathRoundPct(filled, total)
      header == Join(<<TitleLine, ProgressLine(filled, total, progress), <<>> >>, NL)
      lines == PushLines(a, NBlocks)
  IN  header \o Join(lines, NL)

\* ===== Persisted storage (localStorage under KEY) =====
\* A stored item is what localStorage.getItem(KEY) returns: kind "missing"
\* is null (no key), "empty" the empty string, "garbage" a text that is not
\* JSON, and "json" the text of the JSON value val.  canon says that the
\* text is exactly JSON.stringify({answers, completed}) of val (no extra
\* white space, no extra members); JSON.parse forgets it.
\* A JSON value has tag t ("null", "number", "array", "object"); an object
\* has the members answers (tag "absent" or "object", with map m from keys
\* to values tagged "string" or "number") and completed (tag "absent",
\* "number" or "array", with list l).
EmptyMap == [x \in {} |-> <<>>]
JStr(s) == [t |-> "string", s |-> s]
JNum == [t |-> "number", s |-> <<>>]
JAbsent == [t |-> "absent", m |-> EmptyMap, l |-> <<>>]
JMap(m) == [t |-> "object", m |-> m, l |-> <<>>]
JList(l) == [t |-> "array", m |-> EmptyMap, l |-> l]
JNumber == [t |-> "number", m |-> EmptyMap, l |-> <<>>]
JValue(t, a, c) == [t |-> t, answers |-> a, completed |-> c]
JPayload(a, c) == JValue("object", a, c)

Item(kind, canon, val) == [kind |-> kind, canon |-> canon, val |-> val]
RawMissing == Item("missing", FALSE, JValue("null", JAbsent, JAbsent))
RawEmpty == Item("empty", FALSE, JValue("null", JAbsent, JAbsent))
RawGarbage == Item("garbage", FALSE, JValue("null", JAbsent, JAbsent))
RawJSON(val, canon) == Item("json", canon, val)

\* The answers state as a JSON object of strings, and back.
ToJMap(a) == JMap([id \in DOMAIN a |-> JStr(a[id])])
FromJMap(j) == [id \in DOMAIN j.m |-> j.m[id].s]

\* JSON.stringify({ answers, completed })
Stringify(a, c) == RawJSON(JPayload(ToJMap(a), JList(c)), TRUE)

\* What storage may hold when the component mounts.
AllX == [id \in Ids |-> <<"x">>]
WellFormedPayloads ==
  { JPayload(JMap(EmptyMap), JList(<<>>)),
    JPayload(ToJMap([id \in {"b1"} |-> <<"x">>]), JList(<<"b1">>)),
    JPayload(ToJMap([id \in {"b5"} |-> <<SP, "x", SP>>]), JList(<<>>)),
    JPayload(ToJMap([id \in {"b2"} |-> <<SP>>]), JList(<<"b2">>)),
    JPayload(ToJMap(AllX), JList(<<"b12", "b2">>)) }
MalformedPayloads ==
  { JValue("null", JAbsent, JAbsent),
    JValue("number", JAbsent, JAbsent),
    JValue("array", JAbsent, JAbsent),
    JPayload(JAbsent, JAbsent),
    JPayload(JMap([id \in {"b1"} |-> JNum]), JList(<<>>)),
    JPayload(JMap(EmptyMap), JNumber) }
StoredItems ==
  {RawMissing, RawEmpty, RawGarbage}
    \cup {RawJSON(v, TRUE) : v \in WellFormedPayloads}
    \cup {RawJSON(v, FALSE) : v \in WellFormedPayloads \cup MalformedPayloads}

\* The stored items the user sessions start from: no key, and a full form.
SessionItems ==
  { RawMissing,
    RawJSON(JPayload(ToJMap(AllX), JList(<<"b12", "b2">>)), TRUE) }

WellFormed(item) == item.kind = "json" /\ item.val \in WellFormedPayloads

\* ===== Componente =====
\* The number of mutating events (edits, clears, toggles) of a session.
MaxOps == 2

NoFile == <<"(no file)">>
NoUpdate == [some |-> FALSE, answers |-> JMap(EmptyMap), completed |-> JList(<<>>)]
Update(a, c) == [some |-> TRUE, answers |-> a, completed |-> c]

\* The component after its first render, before its effects.
Mounted(items) ==
  /\ pc = "mount"
  /\ answers = EmptyMap
  /\ completed = <<>>
  /\ focusId = BLOCKS[1].id
  /\ hAnswers = EmptyMap
  /\ queued = NoUpdate
  /\ storage \in items
  /\ stored0 = storage
  /\ quotaFull = FALSE
  /\ error = "none"
  /\ download = NoFile
  /\ lastOp = "render"
  /\ ops = 0

Init == Mounted(SessionItems)

\* ----- Cargar de localStorage -----
\* parsed.answers || {} and parsed.completed || [] for a parsed value that
\* is not null (members of a number or an array are undefined).
AnswersOr(val) ==
  IF val.t = "object" /\ val.answers.t # "absent" THEN val.answers
  ELSE JMap(EmptyMap)
\* variant: the completed list is not restored
CompletedOrEmpty(val) == JList(<<>>)
CompletedOr(val) ==
  IF val.t = "object" /\ val.completed.t # "absent" THEN val.completed
  ELSE JList(<<>>)

\* The body of the load effect: the updates it enqueues.  raw is falsy for
\* null and ""; JSON.parse throws on garbage and parsed.answers throws on
\* null, both inside the try.
LoadUpdates(raw) ==
  IF raw.kind \in {"missing", "empty"} THEN NoUpdate
  ELSE IF raw.kind = "garbage" THEN NoUpdate
  ELSE IF raw.val.t = "null" THEN NoUpdate
  ELSE Update(AnswersOr(raw.val), CompletedOr(raw.val))

LoadEffect ==
  /\ pc = "mount"
  /\ queued' = LoadUpdates(storage)
  /\ pc' = "loaded"
  /\ lastOp' = "load"
  /\ UNCHANGED <<answers, completed, focusId, hAnswers, storage, stored0,
                 quotaFull, error, download, ops>>

\* ----- Guardar en localStorage -----
\* localStorage.setItem(KEY, JSON.stringify(payload)), with no try around
\* it: when setItem throws, the error leaves the effect and React unmounts
\* the tree.
SetItem(a, c, pcNext) ==
  IF quotaFull
  THEN /\ storage' = storage
       /\ error' = "QuotaExceededError"
       /\ pc' = "unmounted"
  ELSE /\ storage' = Stringify(a, c)
       /\ error' = error
       /\ pc' = pcNext

\* The save effect of a commit during startup: after the first render
\* (answers and completed are the state of that render) and after the
\* render of the loaded state.
SaveEffect ==
  /\ pc \in {"loaded", "rerendered"}
  /\ SetItem(answers, completed, IF pc = "loaded" THEN "saved" ELSE "ready")
  /\ lastOp' = "save"
  /\ UNCHANGED <<answers, completed, focusId, hAnswers, queued, stored0,
                 quotaFull, download, ops>>

\* ----- runSmokeTests: the results on the catalog -----
\* String.prototype.includes
StrIncludes(s, sub) ==
  \E i \in 1..(Len(s) - Len(sub) + 1) : SubSeq(s, i, i + Len(sub) - 1) = sub
\* String(n).padStart(2, "0")
PadStart2(n) == IF n < 10 THEN "0" \o Digit(n) ELSE Digit(n \div 10) \o Digit(n % 10)

\* 1) BLOCKS.length === 12
twelveBlocks == Len(BLOCKS) = 12
\* 2) new Set(ids).size === ids.length
unique == Cardinality({ BLOCKS[i].id : i \in 1..Len(BLOCKS) }) = Len(BLOCKS)
\* 3) BLOCKS.every((b, i) => b.numero === `${String(i + 1).padStart(2, "0")}.`)
seq == \A i \in 0..(Len(BLOCKS) - 1) : BlockAt(i).numero = PadStart2(i + 1) \o "."
\* 4) BLOCKS.every((b) => !!b.titulo && !!b.pregunta && b.pregunta.includes("¿"))
nonEmpty ==
  \A i \in 1..Len(BLOCKS) :
    /\ BLOCKS[i].titulo # ""
    /\ BLOCKS[i].pregunta # ""
    /\ StrIncludes(BLOCKS[i].pregunta, "¿")
\* 5) BLOCKS[0].pregunta.includes("presupuestales") &&
\*    BLOCKS[11].pregunta.includes("baja adopción")
spot ==
  /\ StrIncludes(BlockAt(0).pregunta, "presupuestales")
  /\ StrIncludes(BlockAt(11).pregunta, "baja adopción")

\* ----- Ejecutar tests una sola vez -----
\* runSmokeTests writes and removes KEY + "_test" inside a try: the item
\* under KEY and the component state are untouched.
SmokeTestsEffect ==
  /\ pc = "saved"
  /\ pc' = "tested"
  /\ lastOp' = "tests"
  /\ UNCHANGED <<answers, completed, focusId, hAnswers, queued, storage,
                 stored0, quotaFull, error, download, ops>>

\* ----- Navegacion por teclado: the effect registers h -----
\* h closes over exportTXT of the render the effect ran in, and exportTXT
\* over the answers of that render.
KeydownEffect ==
  /\ pc = "tested"
  /\ hAnswers' = answers
  /\ pc' = "subscribed"
  /\ lastOp' = "subscribe"
  /\ UNCHANGED <<answers, completed, focusId, queued, storage, stored0,
                 quotaFull, error, download, ops>>

\* Rendering a state throws a TypeError when some catalog block's answer is
\* not a string (answers[b.id]?.trim) or completed is not an array
\* (completed.includes).
RenderThrows(a, c) ==
  \/ \E i \in 1..NBlocks :
       /\ BLOCKS[i].id \in DOMAIN a.m
       /\ a.m[BLOCKS[i].id].t # "string"
  \/ c.t # "array"

\* The render of the updates the load effect enqueued.  The keydown effect
\* is not run again (its dependency focusId is unchanged); the save effect
\* is (answers and completed are new objects).
Rerender ==
  /\ pc = "subscribed"
  /\ IF ~queued.some
     THEN /\ pc' = "ready"
          /\ UNCHANGED <<answers, completed, error>>
     ELSE IF RenderThrows(queued.answers, queued.completed)
     THEN /\ pc' = "unmounted"
          /\ error' = "TypeError"
          /\ UNCHANGED <<answers, completed>>
     ELSE /\ pc' = "rerendered"
          /\ answers' = FromJMap(queued.answers)
          /\ completed' = queued.completed.l
          /\ error' = error
  /\ queued' = NoUpdate
  /\ lastOp' = "render"
  /\ UNCHANGED <<focusId, hAnswers, storage, stored0, quotaFull, download, ops>>

\* ===== Event handlers =====
Min(a, b) == IF a < b THEN a ELSE b
Max(a, b) == IF a > b THEN a ELSE b

\* prev.includes(id) ? prev.filter((x) => x !== id) : [...prev, id]
Includes(list, id) == \E i \in 1..Len(list) : list[i] = id
Filter(list, id) == SelectSeq(list, LAMBDA x : x # id)
\* variant: a new id is put at the front of the list
onTogglePrepends(prev, id) ==
  IF \E i \in 1..Len(prev) : prev[i] = id
  THEN SelectSeq(prev, LAMBDA x : x # id)
  ELSE <<id>> \o prev

\* variant: the id is added whether or not it is there
onToggleAlwaysAdds(prev, id) == Append(prev, id)

onToggleComplete(prev, id) ==
  IF Includes(prev, id) THEN Filter(prev, id) ELSE Append(prev, id)

\* variant: the text is trimmed before it is stored
onChangeTrims(prev, id, value) ==
  [x \in DOMAIN prev \cup {id} |-> IF x = id THEN Trim(value) ELSE prev[x]]

\* { ...prev, [id]: value }
onChange(prev, id, value) ==
  [x \in DOMAIN prev \cup {id} |-> IF x = id THEN value ELSE prev[x]]

\* variant: the index wraps around instead of being clamped
ArrowDownWraps(f) == BlockAt((FindIndex(f) + 1) % NBlocks).id

\* BLOCKS[Math.min(BLOCKS.length - 1, idx + 1)].id
ArrowDownTarget(f) == BlockAt(Min(NBlocks - 1, FindIndex(f) + 1)).id
\* BLOCKS[Math.max(0, idx - 1)].id
ArrowUpTarget(f) == BlockAt(Max(0, FindIndex(f) - 1)).id

\* variant: the keydown effect has no dependencies, h keeps the focusId of
\* the mount
hFocusIdOfMount == BLOCKS[1].id

\* variant: h toggles with the position idx it has computed, not the id
hFocusIdx == ToString(FindIndex(focusId))

\* The focusId the keydown handler h reads: the effect's dependencies are
\* [focusId], so h is registered again in every commit that changed focusId
\* and closes over the focusId of the latest render.
hFocusId == focusId

\* exportTXT as called from the JSX (the render's own closure) and as called
\* by the keydown handler h (the closure h was registered with).
ButtonExportText == buildTXTContent(answers)
KeyExportText == buildTXTContent(hAnswers)

\* variant: completed is left out of the dependencies
SaveDepsAnswersOnly(newAnswers, newCompleted) == newAnswers

\* The dependencies of the save effect: it runs in a commit when answers
\* or completed is a new object.
SaveDepsChanged(newAnswers, newCompleted) == newAnswers \/ newCompleted

\* One event at the ready component: the handler's state updates, the
\* render they cause and the effects of that commit.  a2, c2, f2 are the
\* state after the handler; newA and newC say whether setAnswers and
\* setCompleted produced a new object.  The save effect runs when its
\* dependencies changed; the keydown effect runs again when focusId
\* changed, and then h closes over the answers of this render.
Handled(op, a2, c2, f2, newA, newC, file) ==
  /\ pc = "ready"
  /\ answers' = a2
  /\ completed' = c2
  /\ focusId' = f2
  /\ download' = file
  /\ lastOp' = op
  /\ IF SaveDepsChanged(newA, newC)
     THEN SetItem(a2, c2, "ready")
     ELSE UNCHANGED <<storage, error, pc>>
  /\ hAnswers' = IF f2 # focusId THEN a2 ELSE hAnswers
  /\ ops' = IF newA \/ newC THEN ops + 1 ELSE ops
  /\ UNCHANGED <<queued, stored0, quotaFull>>

\* The session has mutating events left.
Mutable == ops < MaxOps

\* The blocks the user edits or toggles with the mouse (first, the one of
\* the spec's scenario, last) and the texts typed (white space only, and a
\* word with white space around it).
TouchedIds == {"b1", "b5", "b12"}
TypedTexts == { <<SP>>, <<SP, "x", SP>> }

\* textarea onChange of the card of block id: onChange(b.id, e.target.value)
TypeAnswerOf(id, value) ==
  /\ Mutable
  /\ Handled("type", onChange(answers, id, value), completed, focusId,
             TRUE, FALSE, NoFile)

TypeAnswer == \E id \in TouchedIds, value \in TypedTexts : TypeAnswerOf(id, value)

\* variant: clearing a card also takes its block out of completed
ClearAnswerUnmarks(id) ==
  /\ Mutable
  /\ Handled("clear", onChange(answers, id, <<>>), Filter(completed, id),
             focusId, TRUE, TRUE, NoFile)

\* "Limpiar" button of the card of block id: onChange(b.id, "")
\* (stopPropagation: the card's onClick does not run)
ClearAnswerOf(id) ==
  /\ Mutable
  /\ Handled("clear", onChange(answers, id, <<>>), completed, focusId,
             TRUE, FALSE, NoFile)

ClearAnswer == \E id \in TouchedIds : ClearAnswerOf(id)

\* "Marcar"/"Listo" button of the card of block id (stopPropagation)
ToggleClickOf(id) ==
  /\ Mutable
  /\ Handled("toggleClick", answers, onToggleComplete(completed, id),
             focusId, FALSE, TRUE, NoFile)

ToggleClick == \E id \in TouchedIds : ToggleClickOf(id)

\* section onClick
CardClick ==
  \E id \in Ids :
    Handled("click", answers, completed, id, FALSE, FALSE, NoFile)

\* keydown: ArrowDown
KeyArrowDown ==
  Handled("ArrowDown", answers, completed, ArrowDownTarget(focusId),
          FALSE, FALSE, NoFile)

\* keydown: ArrowUp
KeyArrowUp ==
  Handled("ArrowUp", answers, completed, ArrowUpTarget(focusId),
          FALSE, FALSE, NoFile)

\* keydown: Ctrl+Enter or Cmd+Enter, onToggleComplete(focusId) in h
KeyToggle ==
  /\ Mutable
  /\ Handled("toggleKey", answers, onToggleComplete(completed, hFocusId),
             focusId, FALSE, TRUE, NoFile)

\* keydown: Alt+E or Alt+X
KeyExport ==
  Handled("exportKey", answers, completed, focusId, FALSE, FALSE,
          KeyExportText)

\* "Exportar TXT" button
ExportClick ==
  Handled("exportClick", answers, completed, focusId, FALSE, FALSE,
          ButtonExportText)

\* localStorage starts refusing writes (quota exceeded)
QuotaExceeded ==
  /\ pc # "unmounted"
  /\ ~quotaFull
  /\ quotaFull' = TRUE
  /\ UNCHANGED <<pc, answers, completed, focusId, hAnswers, queued, storage,
                 stored0, error, download, lastOp, ops>>

Startup == LoadEffect \/ SaveEffect \/ SmokeTestsEffect \/ KeydownEffect \/ Rerender

Next ==
  \/ LoadEffect
  \/ SaveEffect
  \/ SmokeTestsEffect
  \/ KeydownEffect
  \/ Rerender
  \/ TypeAnswer
  \/ ClearAnswer
  \/ ToggleClick
  \/ CardClick
  \/ KeyArrowDown
  \/ KeyArrowUp
  \/ KeyToggle
  \/ KeyExport
  \/ ExportClick

\* The storage accepts every write.
Spec == Init /\ [][Next]_vars

\* The storage may start refusing writes at any time.
NextQuota == Next \/ QuotaExceeded
SpecQuota == Init /\ [][NextQuota]_vars

\* Startup alone, from every stored item: the mount effects and the render
\* of the loaded state, before any user input.
InitStartup == Mounted(StoredItems)
SpecStartup == InitStartup /\ [][Startup]_vars

\* ----- Values derived in the render -----
total == NBlocks
\* useMemo(() => BLOCKS.reduce((acc, b) =>
\*   acc + (answers[b.id]?.trim() ? 1 : 0), 0), [answers]):
\* the component's own count, written apart from the one of buildTXTContent
RECURSIVE FilledMemo(_, _)
FilledMemo(a, n) ==
  IF n = 0 THEN 0
  ELSE FilledMemo(a, n - 1)
       + (IF Truthy(OptTrim(Lookup(a, BLOCKS[n].id))) THEN 1 ELSE 0)
filled == FilledMemo(answers, NBlocks)
progress == MathRoundPct(filled, total)

\* const value = answers[b.id] || ""
value(b) == OrElse(Lookup(answers, b.id), <<>>)
\* const isComplete = completed.includes(b.id) || !!value.trim()
isComplete(b) ==
  (\E i \in 1..Len(completed) : completed[i] = b.id) \/ Trim(value(b)) # <<>>
\* String.prototype.length of a text: the characters of its pieces
RECURSIVE Length(_)
Length(t) == IF t = <<>> THEN 0 ELSE Len(Head(t)) + Length(Tail(t))
\* const count = value.trim().length
count(b) == Length(Trim(value(b)))

\* ===== The Report Builder on its own =====
\* Every form the user can have filled in by typing: the first k blocks
\* answered with a word, and one block holding any of the Texts.  The
\* component is ready, nothing has been toggled, and each edit was saved.
Prefix(k) == [id \in {BLOCKS[i].id : i \in 1..k} |-> <<"x">>]
FilledForms ==
  { onChange(Prefix(k), id, t) : k \in 0..NBlocks, id \in Ids, t \in Texts }

InitTXT ==
  /\ pc = "ready"
  /\ answers \in FilledForms
  /\ completed = <<>>
  /\ focusId = BLOCKS[1].id
  /\ hAnswers = EmptyMap
  /\ queued = NoUpdate
  /\ storage = Stringify(answers, completed)
  /\ stored0 = RawMissing
  /\ quotaFull = FALSE
  /\ error = "none"
  /\ download = NoFile
  /\ lastOp = "type"
  /\ ops = MaxOps

SpecTXT == InitTXT /\ [][ExportClick]_vars

\* ===== What the claims speak of =====
\* text.split("\n")
RECURSIVE SplitLines(_)
SplitLines(s) ==
  IF \A i \in 1..Len(s) : s[i] # NL THEN <<s>>
  ELSE LET i == CHOOSE k \in 1..Len(s) :
                  s[k] = NL /\ \A j \in 1..(k - 1) : s[j] # NL
       IN  <<SubSeq(s, 1, i - 1)>> \o SplitLines(SubSeq(s, i + 1, Len(s)))

\* The answer of a block as the Answer Store defines it (absent = empty),
\* and with surrounding white space removed.
AnswerOf(a, id) == IF id \in DOMAIN a THEN a[id] ELSE <<>>
IsSpace(c) == c = SP \/ c = NL
Trimmed(t) ==
  IF \A i \in 1..Len(t) : IsSpace(t[i]) THEN <<>>
  ELSE LET lo == CHOOSE i \in 1..Len(t) :
                   ~IsSpace(t[i]) /\ \A j \in 1..(i - 1) : IsSpace(t[j])
           hi == CHOOSE i \in 1..Len(t) :
                   ~IsSpace(t[i]) /\ \A j \in (i + 1)..Len(t) : IsSpace(t[j])
       IN  SubSeq(t, lo, hi)
ShownAnswer(a, id) ==
  IF Trimmed(AnswerOf(a, id)) = <<>> THEN <<"[Sin respuesta]">>
  ELSE Trimmed(AnswerOf(a, id))

\* The figures of the spec's Progress Calculator.
FilledBlocks(a) == {i \in 1..NBlocks : Trimmed(AnswerOf(a, BLOCKS[i].id)) # <<>>}
\* p is x = n / d * 100 rounded to the nearest integer, half up:
\* p <= x + 1/2 < p + 1.
IsRounded(p, n, d) ==
  /\ 2 * d * p <= 2 * 100 * n + d
  /\ 2 * 100 * n + d < 2 * d * (p + 1)
PercentOf(n, d) == CHOOSE p \in 0..100 : IsRounded(p, n, d)

\* The answers a download was built from: the store's for the button.
Exported == download # NoFile

\* The lines the claim C1 lists for one block, and for the whole report.
ClaimedGroup(a, b) ==
  << <<b.numero, SP, b.titulo>>, <<b.pregunta>>, ShownAnswer(a, b.id), <<>> >>
RECURSIVE ClaimedGroups(_, _)
ClaimedGroups(a, n) ==
  IF n = 0 THEN <<>> ELSE ClaimedGroups(a, n - 1) \o ClaimedGroup(a, BLOCKS[n])
ClaimedProgressLine(a) ==
  LET n == Cardinality(FilledBlocks(a))
  IN  <<"Progreso: ">> \o NumToText(n) \o <<"/">> \o NumToText(12)
        \o <<" (">> \o NumToText(PercentOf(n, 12)) \o <<"%)">>

\* C1: the exported report, split on line breaks, is exactly the title
\* line, the progress line, one blank line, and then four lines for each
\* of the 12 blocks in catalog order (number and title, question, answer
\* line, blank line).
C1_ReportLines ==
  Exported =>
    SplitLines(download)
      = <<TitleLine, ClaimedProgressLine(answers), <<>> >>
          \o ClaimedGroups(answers, 12)

\* A state in which a form without any answer text has been exported.
C1_Witness ==
  Exported /\ lastOp = "exportClick" /\ FilledBlocks(answers) = {}

\* Occurrences of the piece w in the text t.
Occurrences(t, w) == Cardinality({i \in 1..Len(t) : t[i] = w})
RECURSIVE SumOver(_, _, _)
SumOver(a, n, w) ==
  IF n = 0 THEN 0
  ELSE SumOver(a, n - 1, w) + Occurrences(Trimmed(AnswerOf(a, BLOCKS[n].id)), w)

\* The text t holds the text u at positions from..(from + Len(u) - 1).
HoldsAt(t, from, u) ==
  /\ from >= 1
  /\ from + Len(u) - 1 <= Len(t)
  /\ SubSeq(t, from, from + Len(u) - 1) = u

\* C2 as stated: in the exported report every block's number-and-title
\* line and question line are the catalog's, the line after the question
\* is the block's trimmed answer, or "[Sin respuesta]" when that is empty,
\* and "undefined" occurs nowhere in the output.
C2_AnswerLineAsStated ==
  Exported =>
    LET ls == SplitLines(download) IN
      /\ \A i \in 1..NBlocks :
           \E q \in 2..(Len(ls) - 1) :
             /\ ls[q] = <<BLOCKS[i].pregunta>>
             /\ ls[q - 1] = <<BLOCKS[i].numero, SP, BLOCKS[i].titulo>>
             /\ ls[q + 1] = ShownAnswer(answers, BLOCKS[i].id)
      /\ Occurrences(download, "undefined") = 0

\* C2 as amended: every block's number-and-title line and question line
\* are the catalog's; the text between the line break ending the question
\* line and the line break before the block's closing blank line is the
\* block's trimmed answer (spanning several lines when the answer has
\* inner line breaks), or "[Sin respuesta]" when that is empty; and
\* "undefined" occurs in the output only where the trimmed answers hold it.
C2_AnswerText ==
  Exported =>
    /\ \A i \in 1..NBlocks :
         LET b == BLOCKS[i]
             shown == ShownAnswer(answers, b.id)
         IN  /\ Occurrences(download, b.pregunta) = 1
             /\ \E q \in 1..Len(download) :
                  /\ download[q] = b.pregunta
                  /\ HoldsAt(download, q - 5, <<NL, b.numero, SP, b.titulo, NL>>)
                  /\ HoldsAt(download, q + 1, <<NL>> \o shown \o <<NL>>)
                  /\ IF i = NBlocks
                     THEN q + Len(shown) + 2 = Len(download)
                     ELSE HoldsAt(download, q + Len(shown) + 3,
                                  <<NL, BLOCKS[i + 1].numero>>)
    /\ Occurrences(download, "undefined") = SumOver(answers, NBlocks, "undefined")

\* An exported report of a form with a padded answer, a missing answer and
\* an answer of several lines.
C2_Witness ==
  /\ Exported
  /\ \E i, j \in 1..NBlocks :
       /\ BLOCKS[i].id \notin DOMAIN answers
       /\ BLOCKS[j].id \in DOMAIN answers
       /\ answers[BLOCKS[j].id] = <<NL, "x", SP>>
  /\ \E j \in 1..NBlocks :
       /\ BLOCKS[j].id \in DOMAIN answers
       /\ answers[BLOCKS[j].id] = <<"x">>

\* C3: whenever the export action is triggered, by the button or by the
\* Alt+E / Alt+X shortcut, the exported file is the Report Builder output
\* for the answers the store holds at that moment.
C3_ExportIsCurrent ==
  lastOp \in {"exportClick", "exportKey"} => download = buildTXTContent(answers)

\* C4: after every mutating operation has been handled, the item stored
\* under the key is the serialization of the current answers and completed.
MutatingOps == {"type", "clear", "toggleClick", "toggleKey"}
C4_StoredIsCurrent ==
  (pc = "ready" /\ lastOp \in MutatingOps)
    => storage = RawJSON(JPayload(ToJMap(answers), JList(completed)), TRUE)

\* Two mutations handled, the second a toggle by the shortcut of a block
\* the user did not click, and the stored item replaced.
C4_Witness ==
  /\ pc = "ready" /\ lastOp = "toggleKey" /\ ops = 2
  /\ focusId \notin TouchedIds
  /\ storage # stored0
  /\ storage.val.completed.l = completed
  /\ storage.val.answers.m = ToJMap(answers).m

\* C5: when storage holds a well-formed persisted state P at mount, then
\* once startup has completed, before any user input, answers and
\* completed are those of P and storage holds the serialization of P.
C5_RoundTrip ==
  (pc = "ready" /\ WellFormed(stored0))
    => /\ DOMAIN answers = DOMAIN stored0.val.answers.m
       /\ \A id \in DOMAIN answers : answers[id] = stored0.val.answers.m[id].s
       /\ completed = stored0.val.completed.l
       /\ storage = RawJSON(stored0.val, TRUE)

\* Startup completed from a stored text that was not in serialized form:
\* the state is restored and the text rewritten.
C5_Witness ==
  /\ pc = "ready" /\ WellFormed(stored0) /\ ~stored0.canon
  /\ "b1" \in DOMAIN answers /\ answers["b1"] = <<"x">>
  /\ completed = <<"b1">>
  /\ storage # stored0

\* C6: for a stored value that is missing or malformed, startup leaves the
\* Answer Store at its empty defaults and raises no error, in loading and
\* in the render that follows.
StartupOver == pc \in {"ready", "unmounted"}
C6_MalformedYieldsDefaults ==
  (StartupOver /\ ~WellFormed(stored0))
    => answers = EmptyMap /\ completed = <<>> /\ error = "none" /\ pc = "ready"

\* C7: a failing persistence write is caught where it is made: no error
\* escapes the save step and the form keeps rendering.
C7_WriteFailureCaught ==
  quotaFull => error = "none" /\ pc # "unmounted"

\* C8: filled is the number of catalog blocks whose trimmed answer is not
\* empty, total is 12, percent is filled / total * 100 rounded half up;
\* 0 <= filled <= 12, percent is an integer in 0..100, filled = 1 gives 8.
\* The last conjunct is the rounding for every count a form can have.
C8_Progress ==
  /\ filled = Cardinality(FilledBlocks(answers))
  /\ total = 12
  /\ IsRounded(progress, filled, total)
  /\ filled \in 0..12
  /\ progress \in 0..100
  /\ (filled = 1 => progress = 8)
  /\ \A k \in 0..12 :
       MathRoundPct(k, total) \in 0..100 /\ IsRounded(MathRoundPct(k, total), k, 12)

\* One block answered, another holding white space only.
C8_Witness ==
  /\ pc = "ready" /\ filled = 1 /\ progress = 8
  /\ \E id \in DOMAIN answers : answers[id] = <<SP>>
  /\ \E id \in DOMAIN answers : answers[id] = <<SP, "x", SP>>

\* C9: toggleComplete on any block leaves filled and percent unchanged,
\* and a block is shown complete exactly when its id is in completed or its
\* trimmed answer is not empty (so a toggled block without text is).
InCompleted(c, id) == \E i \in 1..Len(c) : c[i] = id
C9_ToggleKeepsProgress ==
  [][ (ToggleClick \/ KeyToggle) =>
        /\ filled' = filled
        /\ progress' = progress
        /\ \A i \in 1..NBlocks :
             isComplete(BLOCKS[i])' <=>
               \/ InCompleted(completed', BLOCKS[i].id)
               \/ Trimmed(AnswerOf(answers', BLOCKS[i].id)) # <<>>
        /\ \A i \in 1..NBlocks :
             (InCompleted(completed', BLOCKS[i].id)
                /\ ~InCompleted(completed, BLOCKS[i].id))
               => isComplete(BLOCKS[i])'
    ]_vars

\* From the empty state, a block without text has been toggled: filled is
\* still 0 and the block is shown complete.
C9_Witness ==
  /\ stored0 = RawMissing /\ lastOp \in {"toggleClick", "toggleKey"}
  /\ answers = EmptyMap /\ filled = 0 /\ progress = 0
  /\ InCompleted(completed, "b2") /\ isComplete(BLOCKS[2])

\* C10: focus starts at the first block; ArrowDown moves it to the next
\* block and leaves it on the last; ArrowUp moves it to the previous block
\* and leaves it on the first; the focused id is always a catalog id.
PosOf(id) == CHOOSE i \in 1..NBlocks : BLOCKS[i].id = id
C10_Navigation ==
  /\ focusId = BLOCKS[1].id
  /\ [](focusId \in Ids)
  /\ [][ /\ KeyArrowDown =>
              PosOf(focusId') = IF PosOf(focusId) = 12 THEN 12
                                ELSE PosOf(focusId) + 1
         /\ KeyArrowUp =>
              PosOf(focusId') = IF PosOf(focusId) = 1 THEN 1
                                ELSE PosOf(focusId) - 1
     ]_vars

\* ArrowDown has brought the focus to the last block, where the next
\* ArrowDown leaves it.
C10_Witness == lastOp = "ArrowDown" /\ focusId = BLOCKS[12].id

\* The ids in a completed list, and the ids whose membership differs
\* between two lists.
Members(c) == { c[i] : i \in 1..Len(c) }
Flipped(c, d) == (Members(c) \ Members(d)) \cup (Members(d) \ Members(c))

\* C11: wherever arrow keys and card clicks have put the focus,
\* Ctrl/Cmd+Enter flips the completion of the focused block, of no other
\* block, and leaves the focus where it is.
C11_KeyToggleFocused ==
  [][ KeyToggle => /\ Flipped(completed, completed') = {focusId}
                   /\ focusId' = focusId
    ]_vars

\* The focus has been moved to the seventh block, which no mouse toggle of
\* the sessions touches, and Ctrl+Enter has marked it.
C11_Witness ==
  /\ stored0 = RawMissing /\ lastOp = "toggleKey"
  /\ focusId = "b7" /\ completed = <<"b7">>

\* C12: a toggle of id (button of a card, or Ctrl/Cmd+Enter on the focused
\* block) takes id out of completed when it is in and puts it in when it
\* is not, keeps the membership of every other id and keeps all answers;
\* toggling the same id twice gives back the membership there was.
ToggleFlips(id) ==
  /\ InCompleted(completed', id) = ~InCompleted(completed, id)
  /\ \A other \in Ids \ {id} :
       InCompleted(completed', other) = InCompleted(completed, other)
  /\ answers' = answers
C12_Toggle ==
  /\ [](\A id \in Ids :
         Members(onToggleComplete(onToggleComplete(completed, id), id))
           = Members(completed))
  /\ [][ /\ \A id \in TouchedIds : ToggleClickOf(id) => ToggleFlips(id)
         /\ KeyToggle => ToggleFlips(focusId)
     ]_vars

\* From the empty store the same block has been toggled twice: nothing is
\* marked again, no answer exists.
C12_Witness ==
  /\ stored0 = RawMissing /\ ops = 2
  /\ lastOp \in {"toggleClick", "toggleKey"}
  /\ completed = <<>> /\ answers = EmptyMap

\* The answers of every id but id are the same before and after the step.
OthersKept(id) ==
  /\ DOMAIN answers' \ {id} = DOMAIN answers \ {id}
  /\ \A other \in DOMAIN answers \ {id} : answers'[other] = answers[other]

\* C13: "Limpiar" on the card of id leaves the answer of id empty, as
\* typing the empty text would, keeps every other answer and keeps
\* completed as it is: a block marked by hand stays marked.
C13_Clear ==
  [][ \A id \in TouchedIds :
        ClearAnswerOf(id) => /\ id \in DOMAIN answers'
                             /\ answers'[id] = <<>>
                             /\ OthersKept(id)
                             /\ completed' = completed
    ]_vars

\* The stored form had every answer filled and b12 marked; b12 has been
\* cleared: its answer is empty, it is still marked, b1 keeps its answer.
C13_Witness ==
  /\ stored0 # RawMissing /\ lastOp = "clear" /\ ops = 1
  /\ answers["b12"] = <<>> /\ InCompleted(completed, "b12")
  /\ answers["b1"] = <<"x">>

\* C14: typing text into the card of id stores exactly that text under id,
\* white space included, whether or not id had an answer; every other
\* answer, completed and the focus stay as they are.
C14_SetAnswer ==
  [][ \A id \in TouchedIds, text \in TypedTexts :
        TypeAnswerOf(id, text) => /\ id \in DOMAIN answers'
                                  /\ answers'[id] = text
                                  /\ OthersKept(id)
                                  /\ completed' = completed
                                  /\ focusId' = focusId
    ]_vars

\* From the empty store, b5 has been given an answer and then another one,
\* a word with white space on both sides, which is stored as typed.
C14_Witness ==
  /\ stored0 = RawMissing /\ lastOp = "type" /\ ops = 2
  /\ DOMAIN answers = {"b5"} /\ answers["b5"] = <<SP, "x", SP>>
  /\ completed = <<>>

\* C15: the character count shown on every card is the length of the
\* block's current answer as it is stored, white space at its ends
\* included.
C15_CountIsUntrimmedLength ==
  \A i \in 1..NBlocks :
    count(BLOCKS[i]) = Length(AnswerOf(answers, BLOCKS[i].id))

\* C16: the progress line of the report built from the answers carries the
\* filled count, the total and the percentage that the component computes
\* for its header from the same answers.
C16_ReportMatchesHeader ==
  Exported =>
    SplitLines(download)[2] =
      <<"Progreso: ">> \o NumToText(filled) \o <<"/">> \o NumToText(total)
        \o <<" (">> \o NumToText(progress) \o <<"%)">>

\* A report of a form with five answered blocks and a sixth answer of
\* white space only: both computations give 5 of 12, 42%.
C16_Witness ==
  /\ Exported /\ filled = 5 /\ progress = 42
  /\ "b12" \in DOMAIN answers /\ answers["b12"] = <<SP>>
  /\ SplitLines(download)[2] = <<"Progreso: ", "5", "/", "1", "2", " (", "4", "2", "%)">>

\* C17: after every operation (load, save, edit, clear, toggle, navigation,
\* export) the catalog has exactly 12 blocks with pairwise distinct ids;
\* the number of the block at position i is i in two digits and a period;
\* every title and every question is non-empty and every question
\* contains the opening question mark; and the smoke tests 1 to 4 say so.
DigitChars == {"0", "1", "2", "3", "4", "5", "6", "7", "8", "9"}
CharAt(s, k) == SubSeq(s, k, k)
CatalogAsClaimed ==
  /\ Len(BLOCKS) = 12
  /\ \A i, j \in 1..Len(BLOCKS) : i # j => BLOCKS[i].id # BLOCKS[j].id
  /\ \A i \in 1..Len(BLOCKS) :
       LET b == BLOCKS[i] IN
       /\ Len(b.numero) = 3
       /\ CharAt(b.numero, 1) \in DigitChars /\ CharAt(b.numero, 1) = Digit(i \div 10)
       /\ CharAt(b.numero, 2) \in DigitChars /\ CharAt(b.numero, 2) = Digit(i % 10)
       /\ CharAt(b.numero, 3) = "."
       /\ Len(b.titulo) > 0
       /\ Len(b.pregunta) > 0
       /\ \E k \in 1..Len(b.pregunta) : CharAt(b.pregunta, k) = "¿"
OperationNames ==
  { "render", "load", "save", "tests", "subscribe", "type", "clear",
    "toggleClick", "toggleKey", "click", "ArrowDown", "ArrowUp",
    "exportClick", "exportKey" }
C17_Catalog ==
  /\ lastOp \in OperationNames
  /\ CatalogAsClaimed
  /\ twelveBlocks /\ unique /\ seq /\ nonEmpty

\* A session has edited, toggled, moved the focus and exported; the
\* report still numbers the blocks "01." to "12.".
C17_Witness ==
  /\ ops = MaxOps /\ lastOp = "exportClick" /\ focusId # BLOCKS[1].id
  /\ answers # EmptyMap /\ completed # <<>>
  /\ HoldsAt(download, 1, TitleLine) /\ Exported
  /\ BLOCKS[1].numero = "01." /\ BLOCKS[12].numero = "12."

\* C19: once the smoke tests have run, their spot-check of key strings has
\* passed: the question of the first block contains "presupuestales" and
\* the question of the twelfth block contains "baja adopción".
KeyStringsAsClaimed ==
  /\ \E k \in 1..(Len(BLOCKS[1].pregunta) - 13) :
       SubSeq(BLOCKS[1].pregunta, k, k + 13) = "presupuestales"
  /\ \E k \in 1..(Len(BLOCKS[12].pregunta) - 12) :
       SubSeq(BLOCKS[12].pregunta, k, k + 12) = "baja adopción"
C19_SpotCheck ==
  lastOp = "tests" => spot /\ KeyStringsAsClaimed

\* C18: from the empty store, or from a stored form whose ids are all
\* catalog ids, whatever the user edits, clears, toggles (button or
\* shortcut), and wherever arrows and clicks move the focus, every key of
\* answers and every member of completed is the id of a catalog block.
C18_IdsInCatalog ==
  /\ DOMAIN answers \subseteq { BLOCKS[i].id : i \in 1..Len(BLOCKS) }
  /\ \A k \in 1..Len(completed) :
       \E i \in 1..Len(BLOCKS) : BLOCKS[i].id = completed[k]

\* From the empty store: an answer typed into b1, the focus moved to the
\* ninth block and that block marked with the shortcut.
C18_Witness ==
  /\ stored0 = RawMissing /\ ops = MaxOps /\ lastOp = "toggleKey"
  /\ DOMAIN answers = {"b1"} /\ focusId = "b9" /\ completed = <<"b9">>

\* C20: when storage holds a well-formed, non-empty persisted state P at
\* mount, then in every state of the startup, the states between the mount
\* effects included, the value stored under KEY denotes P and is not the
\* serialization of the empty default state.
EmptyDefaults == Stringify(EmptyMap, <<>>)
C20_StartupKeepsData ==
  (WellFormed(stored0) /\ stored0.val # EmptyDefaults.val /\ pc # "unmounted")
    => /\ storage.kind = "json"
       /\ storage.val = stored0.val
       /\ storage # EmptyDefaults

\* C21: from a completed list without repeated ids (the empty one, or the
\* stored one), whatever is toggled, completed holds no id more than once,
\* and it is in the order of last addition: a toggle that adds an id puts
\* it after all the others, a toggle that removes an id keeps the others
\* in the order they had.
NoRepeats(c) == \A i, j \in 1..Len(c) : i # j => c[i] # c[j]
PlaceIn(c, id) == CHOOSE i \in 1..Len(c) : c[i] = id
OrderAfterToggle(id) ==
  IF InCompleted(completed, id)
  THEN /\ Members(completed') = Members(completed) \ {id}
       /\ Len(completed') = Len(completed) - 1
       /\ \A x, y \in Members(completed') :
            (PlaceIn(completed', x) < PlaceIn(completed', y))
              <=> (PlaceIn(completed, x) < PlaceIn(completed, y))
  ELSE /\ Len(completed') = Len(completed) + 1
       /\ completed'[Len(completed')] = id
       /\ \A k \in 1..Len(completed) : completed'[k] = completed[k]
C21_CompletedOrder ==
  /\ [](NoRepeats(completed))
  /\ [][ /\ \A id \in TouchedIds : ToggleClickOf(id) => OrderAfterToggle(id)
         /\ KeyToggle => OrderAfterToggle(focusId)
     ]_vars

\* The stored list was b12, b2; b12 has been taken out and put in again:
\* it is now after b2, once.
C21_Witness ==
  /\ stored0 # RawMissing /\ ops = 2
  /\ lastOp \in {"toggleClick", "toggleKey"}
  /\ completed = <<"b2", "b12">> /\ answers = AllX

====
